---- MODULE Spec2Model ----
(***************************************************************************)
(* Lead submission and attachment pipeline of the trade-appraisal site:    *)
(*   - the Form Intake Handler  (netlify/functions/trade-appraisal.js)     *)
(*   - the Submission Relay Handler and its Attachment Fetcher             *)
(*     (netlify/functions/submission-created.js)                           *)
(* Strings are sequences of one-character strings.  A JavaScript value is  *)
(* a record [t, s]: t is its type tag and s is String(value).              *)
(***************************************************************************)
EXTENDS Integers, Sequences, FiniteSets, TLC

VARIABLES
    \* ---- one request, either handler ---------------------------------------
    env,         \* process.env as the handlers read it
    \* ---- Form Intake Handler ----------------------------------------------
    event,       \* the HTTP event: method, content type, body, headers
    ipc,         \* position of the intake handler: "enter","parsed","sending","hook","done","idle"
    rawData,     \* parsed fields map
    uploads,     \* parsed files list
    lead,        \* normalized lead
    attachments, \* const attachments = att.length ? att : undefined  (<<>> for undefined)
    response,    \* what the handler returned
    sends,       \* number of sg.send calls of this request
    hooks,       \* number of backup-webhook fetch calls of this request
    mail,        \* the message handed to sg.send
    sendOk,      \* whether sg.send resolved
    hookOutcome, \* how the backup-webhook fetch settled
    \* ---- Submission Relay Handler / processAttachments ---------------------
    rpc,         \* position: "enter","fetching","sending","hook","done","returned","idle"
    rbody,       \* kind of event.body the relay receives
    data,        \* payload.data
    files,       \* payload.files: sequence of descriptors
    fstate,      \* per considered descriptor: "pending", "settled" or "stalled"
    fsize,       \* per considered descriptor: bytes fetched, -1 when the fetch failed
    results,     \* per considered descriptor: the attachment or Null
    totalSize,   \* processAttachments' running total
    \* ---- parseMultipart, event by event -----------------------------------
    busboy,      \* the parser's closure: fields, files, the open file part's locals
    \* ---- the page (assets/app.js) ------------------------------------------
    page         \* the VIN input, the decode button, __lastVin, the decodes in flight

\* the variables only the intake handler uses, and those only the relay uses
ivars == <<event, ipc, rawData, uploads, lead>>
rvars == <<rpc, rbody, data, files, fstate, fsize, results, totalSize>>
\* the variables of one request that both handlers use
svars == <<env, attachments, response, sends, hooks, mail, sendOk, hookOutcome>>
\* the variables of the event-level parser and of the page
cvars == <<busboy, page>>
vars == <<event, env, ipc, rawData, uploads, lead, attachments, response,
          sends, hooks, mail, sendOk, hookOutcome,
          rpc, rbody, data, files, fstate, fsize, results, totalSize,
          busboy, page>>

(***************************************************************************)
(* Bounds of the model.                                                    *)
(***************************************************************************)
\* largest number of file parts of a multipart body
MaxParts == 9
\* lists of up to MaxFiles descriptors are fetched with every outcome
MaxFiles == 3
\* one longer list, of MaxList descriptors, is fetched with two body sizes
MaxList == 11
\* file parts of one multipart body, and bytes busboy delivers for one part
MaxFileParts == 2
MaxPartBytes == 2
\* doDecode calls of one page visit
MaxDecodes == 3

(***************************************************************************)
(* Strings                                                                 *)
(***************************************************************************)
Str(s)  == [t |-> "str", s |-> s]
Num(s)  == [t |-> "num", s |-> s]
Undef   == [t |-> "undef", s |-> <<>>]

\* characters in UTF-16 code unit order
CharOrder == <<" ", "&", "(", ")", "-", "1", "7", "<", ">",
               "A", "B", "C", "F", "K", "P", "R", "T",
               "a", "b", "c", "d", "e", "f", "g", "h", "i", "k", "l", "m",
               "n", "o", "p", "r", "s", "t", "u", "v", "w", "x", "y">>
Code(c) == CHOOSE i \in 1..Len(CharOrder) : CharOrder[i] = c

IsSpace(c) == c = " "
IsDigit(c) == c \in {"1", "7"}

RECURSIVE TrimLeft(_)
TrimLeft(s) == IF s # <<>> /\ IsSpace(Head(s)) THEN TrimLeft(Tail(s)) ELSE s
RECURSIVE TrimRight(_)
TrimRight(s) ==
    IF s # <<>> /\ IsSpace(s[Len(s)]) THEN TrimRight(SubSeq(s, 1, Len(s) - 1)) ELSE s
\* String.prototype.trim
Trim(s) == TrimRight(TrimLeft(s))

UpperChar(c) ==
    CASE c = "a" -> "A" [] c = "b" -> "B" [] c = "c" -> "C" [] c = "f" -> "F"
      [] c = "k" -> "K" [] c = "p" -> "P" [] c = "r" -> "R" [] c = "t" -> "T"
      [] OTHER -> c
\* String.prototype.toUpperCase
toUpperCase(s) == [i \in 1..Len(s) |-> UpperChar(s[i])]

RECURSIVE Concat(_)
Concat(ss) == IF ss = <<>> THEN <<>> ELSE Head(ss) \o Concat(Tail(ss))

\* JavaScript truthiness of a value
Truthy(v) ==
    CASE v.t = "str" -> v.s # <<>>
      [] v.t = "num" -> v.s # <<"0">>
      [] OTHER -> FALSE

\* const safe = (v) => (typeof v === "string" ? v.trim() : "")
safe(v) == IF v.t = "str" THEN Trim(v.s) ELSE <<>>

\* const digits = (v) => safe(v).replace(/\D/g, "")
digits(v) == SelectSeq(safe(v), IsDigit)

EscapeChar(c) ==
    CASE c = "&" -> <<"&", "a", "m", "p", ";">>
      [] c = "<" -> <<"&", "l", "t", ";">>
      [] c = ">" -> <<"&", "g", "t", ";">>
      [] OTHER -> <<c>>
\* const escape = (s) => String(s).replace(/&/g,"&amp;").replace(/</g,"&lt;").replace(/>/g,"&gt;")
escape(s) == Concat([i \in 1..Len(s) |-> EscapeChar(s[i])])

\* Array.prototype.join over strings
RECURSIVE Join(_, _)
Join(ss, sep) ==
    IF ss = <<>> THEN <<>>
    ELSE IF Len(ss) = 1 THEN ss[1]
    ELSE ss[1] \o sep \o Join(Tail(ss), sep)

\* String.prototype.includes
Includes(s, sub) ==
    \E i \in 1..(Len(s) - Len(sub) + 1) : SubSeq(s, i, i + Len(sub) - 1) = sub

LowerChar(c) ==
    CASE c = "A" -> "a" [] c = "B" -> "b" [] c = "C" -> "c" [] c = "F" -> "f"
      [] c = "K" -> "k" [] c = "P" -> "p" [] c = "R" -> "r" [] c = "T" -> "t"
      [] c = "X" -> "x" [] c = "M" -> "m" [] c = "L" -> "l" [] c = "H" -> "h"
      [] OTHER -> c
\* String.prototype.toLowerCase
toLowerCase(s) == [i \in 1..Len(s) |-> LowerChar(s[i])]

Min(a, b) == IF a < b THEN a ELSE b

(***************************************************************************)
(* Field keys                                                              *)
(***************************************************************************)
LeadKeys == {"name", "email", "phone", "vin", "year", "make", "model", "trim",
             "mileage", "extColor", "intColor", "referrer", "landingPage",
             "submittedAt"}
\* further keys a submitter can post
ExtraKeys == {"company", "phoneRaw", "form-name", "<k>"}
FieldKeys == LeadKeys \cup ExtraKeys

\* the characters of each key
KeyChars(k) ==
    CASE k = "name"        -> <<"n","a","m","e">>
      [] k = "email"       -> <<"e","m","a","i","l">>
      [] k = "phone"       -> <<"p","h","o","n","e">>
      [] k = "phoneRaw"    -> <<"p","h","o","n","e","R","a","w">>
      [] k = "vin"         -> <<"v","i","n">>
      [] k = "year"        -> <<"y","e","a","r">>
      [] k = "make"        -> <<"m","a","k","e">>
      [] k = "model"       -> <<"m","o","d","e","l">>
      [] k = "trim"        -> <<"t","r","i","m">>
      [] k = "mileage"     -> <<"m","i","l","e","a","g","e">>
      [] k = "extColor"    -> <<"e","x","t","C","o","l","o","r">>
      [] k = "intColor"    -> <<"i","n","t","C","o","l","o","r">>
      [] k = "referrer"    -> <<"r","e","f","e","r","r","e","r">>
      [] k = "landingPage" -> <<"l","a","n","d","i","n","g","P","a","g","e">>
      [] k = "submittedAt" -> <<"s","u","b","m","i","t","t","e","d","A","t">>
      [] k = "company"     -> <<"c","o","m","p","a","n","y">>
      [] k = "form-name"   -> <<"f","o","r","m","-","n","a","m","e">>
      [] k = "<k>"         -> <<"<","k",">">>

\* comparison of two strings by UTF-16 code units (the default of Array.prototype.sort)
RECURSIVE LexLess(_, _)
LexLess(a, b) ==
    IF b = <<>> THEN FALSE
    ELSE IF a = <<>> THEN TRUE
    ELSE IF Head(a) = Head(b) THEN LexLess(Tail(a), Tail(b))
    ELSE Code(Head(a)) < Code(Head(b))

\* Array.prototype.sort() of a set of distinct keys
RECURSIVE SortKeys(_)
SortKeys(ks) ==
    IF ks = {} THEN <<>>
    ELSE LET m == CHOOSE x \in ks :
                    \A o \in ks \ {x} : LexLess(KeyChars(x), KeyChars(o))
         IN <<m>> \o SortKeys(ks \ {m})

\* the own keys of a fields map (absent keys hold Undef)
KeysOf(m) == {k \in DOMAIN m : m[k].t # "undef"}

(***************************************************************************)
(* Form Intake Handler: pure parts                                         *)
(***************************************************************************)
\* busboy's "file"/"end" handlers: keep a part only with a name and bytes
parseMultipartFiles(parts) ==
    LET keep(p) == Trim(p.filename) # <<>> /\ p.size > 0
        kept == SelectSeq(parts, keep)
    IN [i \in 1..Len(kept) |->
          [field |-> kept[i].field, filename |-> Trim(kept[i].filename),
           mimetype |-> IF kept[i].mimeType = "" THEN "application/octet-stream"
                        ELSE kept[i].mimeType,
           size |-> kept[i].size]]

\* (src.vin || "").toUpperCase() throws a TypeError on a truthy non-string
normalizeLeadThrows(src) == Truthy(src["vin"]) /\ src["vin"].t # "str"

\* the value of new Date().toISOString()
Now == <<"T">>

normalizeLead(src) ==
    [k \in LeadKeys |->
        CASE k = "phone" ->
                 LET d == digits(IF Truthy(src["phoneRaw"]) THEN src["phoneRaw"]
                                 ELSE src["phone"])
                 IN SubSeq(d, 1, Min(Len(d), 15))
          [] k = "vin" ->
                 safe(Str(toUpperCase(IF Truthy(src["vin"]) THEN src["vin"].s ELSE <<>>)))
          [] k = "submittedAt" -> Now
          [] OTHER -> safe(src[k])]

preferred == <<"name", "email", "phone", "vin", "year", "make", "model", "trim", "mileage",
               "extColor", "intColor", "title", "keys", "owners", "accident", "accidentRepair",
               "warnings", "mech", "cosmetic", "interior", "mods", "smells", "service",
               "tires", "brakes", "wear", "utmSource", "utmMedium", "utmCampaign", "utmTerm",
               "utmContent", "referrer", "landingPage", "submittedAt">>

\* v !== undefined && v !== null && String(v).trim() !== ""
hasVal(v) == v.t # "undef" /\ Trim(v.s) # <<>>

\* const merged = { ...rawData, ...lead }
Merged(ld, raw) == [k \in FieldKeys |-> IF k \in LeadKeys THEN Str(ld[k]) ELSE raw[k]]

\* the rows of buildEmailBodies: preferred keys first, then the other keys sorted
buildRows(ld, raw) ==
    LET merged == Merged(ld, raw)
        has(k) == k \in FieldKeys /\ hasVal(merged[k])
        pref == SelectSeq(preferred, has)
        included == {pref[i] : i \in 1..Len(pref)}
        rest == SelectSeq(SortKeys(KeysOf(merged) \ included), has)
        keys == pref \o rest
    IN [i \in 1..Len(keys) |-> [k |-> keys[i], v |-> merged[keys[i]].s]]

\* a piece of the HTML body: template text, or text interpolated from the submission
Tpl(text) == [tpl |-> TRUE, text |-> <<text>>]
Dat(text) == [tpl |-> FALSE, text |-> text]

\* one <tr> of the table: key and value both pass through escape
RowHtml(row) ==
    <<Tpl("<tr><th>"), Dat(escape(KeyChars(row.k))), Tpl("</th><td>"),
      Dat(escape(row.v)), Tpl("</td></tr>")>>

RECURSIVE RowsHtml(_)
RowsHtml(rows) ==
    IF rows = <<>> THEN <<>> ELSE RowHtml(Head(rows)) \o RowsHtml(Tail(rows))

NonEmpty(s) == s # <<>>

\* buildEmailBodies(lead, rawData): { html, text }
buildEmailBodies(ld, raw) ==
    LET rows == buildRows(ld, raw)
        heading == Join(SelectSeq(<<ld["year"], ld["make"], ld["model"]>>, NonEmpty), <<" ">>)
        trimPart == IF ld["trim"] # <<>>
                    THEN <<Tpl(" - "), Dat(escape(ld["trim"]))>> ELSE <<>>
    IN [html |-> <<Tpl("<h2>New Trade-In Lead</h2><p>"), Dat(heading)>> \o trimPart
                 \o <<Tpl("</p><table>")>> \o RowsHtml(rows)
                 \o <<Tpl("</table><p>Submitted at "), Dat(escape(ld["submittedAt"])),
                      Tpl("</p>")>>,
        text |-> rows]

\* program constant: toAttachments keeps at most 8 files
MAX_INTAKE_ATTACH == 8

\* toAttachments(files)
toAttachments(fs) ==
    LET real(f) == f.size > 0 /\ Trim(f.filename) # <<>>
        kept == SelectSeq(fs, real)
        cut == SubSeq(kept, 1, Min(Len(kept), MAX_INTAKE_ATTACH))
    IN [i \in 1..Len(cut) |->
          [content |-> cut[i].size, filename |-> cut[i].filename,
           type |-> IF cut[i].mimetype # "" THEN cut[i].mimetype
                    ELSE "application/octet-stream",
           disposition |-> "attachment"]]

\* a response of a handler
Resp(status, body) == [status |-> status, body |-> body, files |-> -1, location |-> ""]
NoResponse == Resp(0, "")
\* the handler's promise rejected: there is no response of the handler
Unhandled == Resp(0, "unhandled exception")

\* the negotiation without the x-requested-with operand
wantsJson_AcceptOnly(ev) == Includes(ev.accept, <<"application/json">>)

\* const wantsJson = ...
wantsJson(ev) ==
    \/ Includes(ev.accept, <<"application/json">>)
    \/ toLowerCase(ev.xrw) = <<"x","m","l","h","t","t","p","r","e","q","u","e","s","t">>

\* the success response, lines 247-259
successResponse(ev, att) ==
    IF wantsJson(ev)
    THEN [status |-> 200, body |-> "{ok:true,files}", files |-> Len(att), location |-> ""]
    ELSE [status |-> 303, body |-> "", files |-> -1, location |-> "/success/index.html"]

(***************************************************************************)
(* Form Intake Handler: the requests explored                              *)
(***************************************************************************)
AllGoodFields ==
    [k \in FieldKeys |->
        CASE k = "name"  -> Str(<<" ", "a", " ">>)
          [] k = "email" -> Str(<<"a">>)
          [] k = "phone" -> Str(<<"(", "1", ")", " ", "7">>)
          [] k = "vin"   -> Str(<<"a">>)
          [] OTHER -> Undef]

FieldChoices(k) ==
    CASE k = "name"     -> {Undef, Str(<<" ">>), Str(<<" ", "a", " ">>)}
      [] k = "email"    -> {Undef, Str(<<"a">>)}
      [] k = "phone"    -> {Undef, Str(<<"(", "1", ")", " ", "7">>), Str(<<"a">>)}
      [] k = "phoneRaw" -> {Undef, Str(<<"1">>)}
      [] k = "vin"      -> {Undef, Str(<<"a">>), Num(<<"7">>)}
      [] k = "company"  -> {Undef, Str(<<" ">>), Str(<<"b">>), Num(<<"7">>)}
      [] k = "make"     -> {Undef, Str(<<"<", "b", ">">>)}
      [] k = "trim"     -> {Undef, Str(<<"a", "&">>)}
      [] k = "<k>"      -> {Undef, Str(<<"<", "c", ">">>)}
      [] k = "form-name" -> {Undef, Str(<<"t">>)}
      [] k = "year"     -> {Undef, Num(<<"7">>)}
      [] OTHER          -> {Undef}

\* the fields maps posted as JSON: every combination of the required fields and the
\* honeypot, and the display fields varied on the maps whose required fields are good
MkFields(n, e, p, pr, v, c, mk, tr, xk, fn, yr) ==
    [k \in FieldKeys |->
        CASE k = "name" -> n [] k = "email" -> e [] k = "phone" -> p
          [] k = "phoneRaw" -> pr [] k = "vin" -> v [] k = "company" -> c
          [] k = "make" -> mk [] k = "trim" -> tr [] k = "<k>" -> xk
          [] k = "form-name" -> fn [] k = "year" -> yr
          [] OTHER -> Undef]

JsonFields ==
    {f \in {MkFields(n, e, p, pr, v, c, mk, tr, xk, fn, yr) :
               n \in FieldChoices("name"), e \in FieldChoices("email"),
               p \in FieldChoices("phone"), pr \in FieldChoices("phoneRaw"),
               v \in FieldChoices("vin"), c \in FieldChoices("company"),
               mk \in FieldChoices("make"), tr \in FieldChoices("trim"),
               xk \in FieldChoices("<k>"), fn \in FieldChoices("form-name"),
               yr \in FieldChoices("year")} :
        (\E k \in {"make", "trim", "<k>", "form-name", "year"} : f[k] # Undef)
            => \A k \in {"name", "email", "phone", "vin"} : f[k] = AllGoodFields[k]}

\* busboy delivers every field value as a string
MultipartFields ==
    {f \in JsonFields :
        /\ \A k \in FieldKeys : f[k].t # "num"
        /\ f["phoneRaw"] = Undef /\ f["trim"] = Undef /\ f["<k>"] = Undef
        /\ f["form-name"] = Undef
        /\ f["name"] # Str(<<" ">>) /\ f["phone"] # Str(<<"a">>)
        /\ f["email"] # Undef}

GoodPart == [field |-> "photos", filename |-> <<" ", "f", " ">>, mimeType |-> "image/png",
             size |-> 1]
BadParts == {[GoodPart EXCEPT !.size = 0],
             [GoodPart EXCEPT !.filename = <<>>],
             [GoodPart EXCEPT !.filename = <<" ">>, !.mimeType = ""]}
\* the file parts of a multipart body: k real uploads, possibly after one empty part
PartLists ==
    {[i \in 1..k |-> GoodPart] : k \in 0..MaxParts}
    \cup {<<b>> \o [i \in 1..k |-> GoodPart] : k \in 0..(MaxParts - 1), b \in BadParts}

XHR == <<"X","M","L","H","t","t","p","R","e","q","u","e","s","t">>
\* the accept and x-requested-with headers of a request
HeaderChoices ==
    {<< <<>>, <<>> >>,
     << <<"text/html">>, <<>> >>,
     << <<"text/html", ",", "application/json">>, <<>> >>,
     << <<>>, XHR >>,
     << <<"text/html">>, toLowerCase(XHR) >>,
     << <<"*/*">>, <<"f","e","t","c","h">> >>}

Event(method, multipart, bodyOk, fields, parts, accept, xrw) ==
    [httpMethod |-> method, multipart |-> multipart, bodyOk |-> bodyOk,
     fields |-> fields, parts |-> parts, accept |-> accept, xrw |-> xrw]

NoFields == [k \in FieldKeys |-> Undef]

Events ==
    {Event(m, FALSE, TRUE, NoFields, <<>>, <<>>, <<>>) : m \in {"OPTIONS", "GET"}}
    \cup {Event("POST", mp, FALSE, NoFields, <<>>, <<>>, <<>>) : mp \in BOOLEAN}
    \cup {Event("POST", FALSE, TRUE, f, <<>>, h[1], h[2]) :
             f \in JsonFields, h \in HeaderChoices}
    \cup {Event("POST", TRUE, TRUE, f, p, h[1], h[2]) :
             f \in MultipartFields, p \in PartLists, h \in HeaderChoices}

\* process.env: the three flags say whether the variable is set, TO_EMAIL is its text
Env(url, key, from, to) ==
    [SHEETS_WEBHOOK_URL |-> url, SENDGRID_API_KEY |-> key, FROM_EMAIL |-> from,
     TO_EMAIL |-> to]

NoLead == [k \in LeadKeys |-> <<>>]
NoMail == [to |-> <<>>, html |-> <<>>, text |-> <<>>, attachments |-> <<>>,
           subject |-> <<>>]

\* no multipart body is being parsed
NoBusboy ==
    [pc |-> "idle", fields |-> <<>>, files |-> <<>>, src |-> <<>>, parts |-> <<>>,
     name |-> "", filename |-> <<>>, mimeType |-> "", size |-> 0, chunks |-> 0,
     truncated |-> FALSE]

\* no page is open
NoPage ==
    [loaded |-> FALSE, vin |-> <<>>, lastVin |-> <<>>, timer |-> FALSE,
     disabled |-> FALSE, label |-> "", toast |-> "", status |-> "",
     year |-> "", make |-> "", model |-> "", trim |-> "", runs |-> <<>>, started |-> 0]

ClientIdle == busboy = NoBusboy /\ page = NoPage

RelayIdle ==
    /\ rpc = "idle" /\ rbody = "none" /\ data = NoFields /\ files = <<>>
    /\ fstate = <<>> /\ fsize = <<>> /\ results = <<>> /\ totalSize = 0

IntakeFresh ==
    /\ rawData = NoFields /\ uploads = <<>> /\ lead = NoLead /\ attachments = <<>>
    /\ response = NoResponse /\ sends = 0 /\ hooks = 0 /\ mail = NoMail
    /\ sendOk = FALSE /\ hookOutcome = "none"

InitIntake ==
    /\ event \in Events
    /\ env \in {Env(u, TRUE, TRUE, <<>>) : u \in BOOLEAN}
    /\ ipc = "enter"
    /\ IntakeFresh
    /\ RelayIdle
    /\ ClientIdle

(***************************************************************************)
(* Form Intake Handler: the handler, one action per stretch between awaits *)
(***************************************************************************)
Respond(r) == response' = r /\ ipc' = "done"

\* lines 164-190: method guards and body parsing
IntakeEnter ==
    /\ ipc = "enter"
    /\ IF event.httpMethod = "OPTIONS"
       THEN Respond(Resp(200, "ok")) /\ UNCHANGED <<rawData, uploads>>
       ELSE IF event.httpMethod # "POST"
       THEN Respond(Resp(405, "Method Not Allowed")) /\ UNCHANGED <<rawData, uploads>>
       ELSE IF ~event.bodyOk
       THEN Respond(Resp(400, "Invalid request body")) /\ UNCHANGED <<rawData, uploads>>
       ELSE /\ rawData' = event.fields
            /\ uploads' = IF event.multipart THEN parseMultipartFiles(event.parts) ELSE <<>>
            /\ ipc' = "parsed"
            /\ UNCHANGED response
    /\ UNCHANGED <<event, env, lead, attachments, sends, hooks, mail, sendOk, hookOutcome>>
    /\ UNCHANGED rvars
    /\ UNCHANGED cvars

\* line 193: if ((safe(rawData.company) || "").trim())
honeypot(raw) == Trim(safe(raw["company"])) # <<>>

\* the required-field check without its VIN operand
missingRequired_NoVin(ld) ==
    ld["name"] = <<>> \/ ld["email"] = <<>> \/ ld["phone"] = <<>>

\* line 199: if (!lead.name || !lead.email || !lead.phone || !lead.vin)
missingRequired(ld) ==
    ld["name"] = <<>> \/ ld["email"] = <<>> \/ ld["phone"] = <<>> \/ ld["vin"] = <<>>

\* the honeypot gate placed after the required-field check
intakeGate_ValidateFirst(raw) ==
    IF normalizeLeadThrows(raw) THEN "throw"
    ELSE IF missingRequired(normalizeLead(raw)) THEN "missing"
    ELSE IF honeypot(raw) THEN "silent"
    ELSE "send"

\* lines 192-201 in their order: what the handler does with the parsed fields
intakeGate(raw) ==
    IF honeypot(raw) THEN "silent"
    ELSE IF normalizeLeadThrows(raw) THEN "throw"
    ELSE IF missingRequired(normalizeLead(raw)) THEN "missing"
    ELSE "send"

\* line 207: the subject line
subjectLine(ld) ==
    Trim(<<"New Trade-In Lead - ">> \o ld["name"] \o <<" - ">>
         \o Join(SelectSeq(<<ld["year"], ld["make"], ld["model"]>>, NonEmpty), <<" ">>))

\* String.prototype.split(",") over a text whose commas are separate tokens
RECURSIVE Split(_)
Split(s) ==
    IF \A i \in 1..Len(s) : s[i] # "," THEN <<s>>
    ELSE LET c == CHOOSE i \in 1..Len(s) : s[i] = "," /\ \A j \in 1..(i - 1) : s[j] # ","
         IN <<SubSeq(s, 1, c - 1)>> \o Split(SubSeq(s, c + 1, Len(s)))

IntakeDefaultTo == <<"mpalmer@quirkcars.com", ",", " ", "steve.obrien@quirkcars.com", ",",
                     " ", "jlombard@quirkcars.com", ",", " ", "msalihovic@quirkcars.com",
                     ",", " ", "nway@quirkcars.com", ",", " ", "gmcintosh@quirkcars.com",
                     ",", " ", "lmendez@quirkcars.com">>

\* lines 212-215: (process.env.TO_EMAIL || default).split(",").map(trim).filter(Boolean)
recipients(e) ==
    LET parts == Split(IF e.TO_EMAIL # <<>> THEN e.TO_EMAIL ELSE IntakeDefaultTo)
        trimmed == [i \in 1..Len(parts) |-> Trim(parts[i])]
    IN SelectSeq(trimmed, NonEmpty)

\* lines 192-225: honeypot, normalization, required fields, composition, sg.send call
IntakeProcess ==
    /\ ipc = "parsed"
    /\ LET gate == intakeGate(rawData)
           ld == normalizeLead(rawData)
           att == toAttachments(uploads)
           bodies == buildEmailBodies(ld, rawData)
       IN CASE gate = "silent" ->
                 /\ Respond([Resp(200, "{ok:true,silent:true}") EXCEPT !.files = -1])
                 /\ UNCHANGED <<lead, attachments, sends, mail>>
            [] gate = "throw" ->
                 /\ Respond(Unhandled)
                 /\ UNCHANGED <<lead, attachments, sends, mail>>
            [] gate = "missing" ->
                 /\ Respond(Resp(400, "Missing required fields"))
                 /\ lead' = ld
                 /\ UNCHANGED <<attachments, sends, mail>>
            [] OTHER ->
                 /\ lead' = ld
                 /\ attachments' = att
                 /\ mail' = [to |-> recipients(env),
                             html |-> bodies.html, text |-> bodies.text,
                             attachments |-> att, subject |-> subjectLine(ld)]
                 /\ sends' = sends + 1
                 /\ ipc' = "sending"
                 /\ UNCHANGED response
    /\ UNCHANGED <<event, env, rawData, uploads, hooks, sendOk, hookOutcome>>
    /\ UNCHANGED rvars
    /\ UNCHANGED cvars

\* the webhook block reached also from the catch of the send
intakeCallsHook_Always(ok, e) == e.SHEETS_WEBHOOK_URL

\* lines 231-232: the backup webhook is called when sg.send resolved and the URL is set
intakeCallsHook(ok, e) == ok /\ e.SHEETS_WEBHOOK_URL

\* lines 217-259: sg.send settles; on success the webhook is called or the response built
IntakeSendSettles ==
    /\ ipc = "sending"
    /\ \E ok \in BOOLEAN :
         /\ sendOk' = ok
         /\ IF intakeCallsHook(ok, env)
            THEN /\ hooks' = hooks + 1
                 /\ ipc' = "hook"
                 /\ UNCHANGED response
            ELSE /\ Respond(IF ok THEN successResponse(event, attachments)
                            ELSE Resp(502, "Failed to send lead"))
                 /\ UNCHANGED hooks
    /\ UNCHANGED <<event, env, rawData, uploads, lead, attachments, sends, mail, hookOutcome>>
    /\ UNCHANGED rvars
    /\ UNCHANGED cvars

\* how a fetch of the webhook can settle: resolved 2xx, resolved non-2xx, rejected
HookOutcomes == {"ok", "non-2xx", "network error"}

\* the webhook fetch without its try/catch answering for the failure
intakeAfterHook_Propagates(ev, att, outcome) ==
    IF outcome = "network error" THEN Resp(502, "Failed to send lead")
    ELSE successResponse(ev, att)

\* lines 243-259: whatever the webhook did, the success response is returned
intakeAfterHook(ev, att, outcome) == successResponse(ev, att)

\* lines 237-259: the webhook fetch settles
IntakeHookSettles ==
    /\ ipc = "hook"
    /\ \E o \in HookOutcomes :
         /\ hookOutcome' = o
         /\ Respond(intakeAfterHook(event, attachments, o))
    /\ UNCHANGED <<event, env, rawData, uploads, lead, attachments, sends, hooks, mail, sendOk>>
    /\ UNCHANGED rvars
    /\ UNCHANGED cvars

NextIntake == IntakeEnter \/ IntakeProcess \/ IntakeSendSettles \/ IntakeHookSettles

SpecIntake == InitIntake /\ [][NextIntake]_vars

(***************************************************************************)
(* Submission Relay Handler: pure parts                                    *)
(***************************************************************************)
RelayDefaultTo == <<"steve@quirkcars.com", ",", "gmcintosh@quirkcars.com", ",",
                    "lmendez@quirkcars.com">>

\* line 28: const TO_EMAILS = (process.env.TO_EMAIL || "...").split(',')
TO_EMAILS(e) == Split(IF e.TO_EMAIL # <<>> THEN e.TO_EMAIL ELSE RelayDefaultTo)

\* line 39: if (!SENDGRID_API_KEY || !FROM_EMAIL || TO_EMAILS.length === 0)
configMissing(e) == ~e.SENDGRID_API_KEY \/ ~e.FROM_EMAIL \/ Len(TO_EMAILS(e)) = 0

\* the payload read guarded against a null document
payloadThrows_NullPasses(body) == body = "not json"

\* lines 49-54: JSON.parse(event.body || "{}").payload || {} throws on text that is not
\* JSON, and on JSON null (a property read of null)
payloadThrows(body) == body \in {"not json", "null"}

\* line 120
htmlEscape(s) == Concat([i \in 1..Len(s) |-> EscapeChar(s[i])])

\* line 107: the keys createEmailContent leaves out
relayExcluded == {"form-name", "company", "bot-field", "honeypot"}

\* createEmailContent without its set of left-out keys
createRows_NoExclusion(d) ==
    LET has(k) == hasVal(d[k])
        keys == SelectSeq(SortKeys(KeysOf(d)), has)
    IN [i \in 1..Len(keys) |-> [k |-> keys[i], v |-> d[keys[i]].s]]

\* lines 107-118: the rows of createEmailContent, keys sorted
createRows(d) ==
    LET has(k) == k \notin relayExcluded /\ hasVal(d[k])
        keys == SelectSeq(SortKeys(KeysOf(d)), has)
    IN [i \in 1..Len(keys) |-> [k |-> keys[i], v |-> d[keys[i]].s]]

relayRowHtml(row) ==
    <<Tpl("<tr><th>"), Dat(htmlEscape(KeyChars(row.k))), Tpl("</th><td>"),
      Dat(htmlEscape(row.v)), Tpl("</td></tr>")>>

RECURSIVE relayRowsHtml(_)
relayRowsHtml(rows) ==
    IF rows = <<>> THEN <<>> ELSE relayRowHtml(Head(rows)) \o relayRowsHtml(Tail(rows))

\* .replace(/\s+/g, " "): every run of spaces becomes one space
RECURSIVE CollapseSpaces(_)
CollapseSpaces(s) ==
    IF Len(s) < 2 THEN s
    ELSE IF IsSpace(s[1]) /\ IsSpace(s[2]) THEN CollapseSpaces(Tail(s))
    ELSE <<s[1]>> \o CollapseSpaces(Tail(s))

\* data.year || ""
OrEmpty(v) == IF Truthy(v) THEN v.s ELSE <<>>

\* lines 106-138: createEmailContent(data)
createEmailContent(d) ==
    LET rows == createRows(d)
    IN [htmlBody |-> <<Tpl("<h2>New Trade-In Lead</h2><table>")>> \o relayRowsHtml(rows)
                     \o <<Tpl("</table>")>>,
        textBody |-> rows,
        subject |-> Trim(CollapseSpaces(<<"New Trade-In Lead - ">> \o OrEmpty(d["year"])
                        \o <<" ">> \o OrEmpty(d["make"]) \o <<" ">> \o OrEmpty(d["model"])))]

\* f.filename || f.url
NameOrUrl(f) == IF f.filename # <<>> THEN f.filename ELSE f.url

RECURSIVE filesItems(_)
filesItems(fs) ==
    IF fs = <<>> THEN <<>>
    ELSE <<Tpl("<li><a href="), Dat(Head(fs).url), Tpl(">"), Dat(NameOrUrl(Head(fs))),
           Tpl("</a></li>")>> \o filesItems(Tail(fs))

\* lines 74-76: the list of photo links
filesHtml(fs) ==
    IF Len(fs) > 0 THEN <<Tpl("<ul>")>> \o filesItems(fs) \o <<Tpl("</ul>")>>
    ELSE <<Tpl("<p>No photos uploaded.</p>")>>

\* lines 80-87: the message handed to sg.send
relayMail(e, d, fs, att) ==
    LET c == createEmailContent(d)
    IN [to |-> TO_EMAILS(e),
        html |-> c.htmlBody \o <<Tpl("<h3>Photos</h3>")>> \o filesHtml(fs),
        text |-> c.textBody,
        attachments |-> att,
        subject |-> c.subject]

(***************************************************************************)
(* Attachment Fetcher: processAttachments                                  *)
(***************************************************************************)
MB == 1024 * 1024
MAX_ATTACH == 10
MAX_EACH_MB == 7
MAX_TOTAL_MB == 20

\* what a per-file callback returns besides an attachment
Null == [content |-> -1, filename |-> <<>>, type |-> "", disposition |-> "null"]
\* the callback's promise rejected
Thrown == [content |-> -1, filename |-> <<>>, type |-> "", disposition |-> "thrown"]

\* line 153: files.slice(0, MAX_ATTACH)
considered(fs) == SubSeq(fs, 1, Min(Len(fs), MAX_ATTACH))

\* the callback without the MAX_EACH check
settleResult_NoEachCap(f, o, total) ==
    IF o.kind = "error" THEN Null
    ELSE IF o.kind = "not ok" THEN Null
    ELSE IF total + o.size > MAX_TOTAL_MB * MB THEN Null
    ELSE [content |-> o.size, filename |-> f.filename,
          type |-> IF f.type # "" THEN f.type ELSE "application/octet-stream",
          disposition |-> "attachment"]

\* the callback without its try/catch: a failed fetch rejects the callback's promise
settleResult_Rethrows(f, o, total) ==
    IF o.kind = "error" THEN Thrown
    ELSE IF o.kind = "not ok" THEN Null
    ELSE IF o.size > MAX_EACH_MB * MB THEN Null
    ELSE IF total + o.size > MAX_TOTAL_MB * MB THEN Null
    ELSE [content |-> o.size, filename |-> f.filename,
          type |-> IF f.type # "" THEN f.type ELSE "application/octet-stream",
          disposition |-> "attachment"]

\* the callback without its check of the running total
settleResult_NoTotalCap(f, o, total) ==
    IF o.kind = "error" THEN Null
    ELSE IF o.kind = "not ok" THEN Null
    ELSE IF o.size > MAX_EACH_MB * MB THEN Null
    ELSE [content |-> o.size, filename |-> f.filename,
          type |-> IF f.type # "" THEN f.type ELSE "application/octet-stream",
          disposition |-> "attachment"]

\* lines 154-187: what the callback of one file returns when its fetch has settled with
\* outcome o and the running total is total
settleResult(f, o, total) ==
    IF o.kind = "error" THEN Null
    ELSE IF o.kind = "not ok" THEN Null
    ELSE IF o.size > MAX_EACH_MB * MB THEN Null
    ELSE IF total + o.size > MAX_TOTAL_MB * MB THEN Null
    ELSE [content |-> o.size, filename |-> f.filename,
          type |-> IF f.type # "" THEN f.type ELSE "application/octet-stream",
          disposition |-> "attachment"]

\* line 173: totalSize += size, reached only when an attachment is returned
settleTotal(r, o, total) == IF r.disposition = "attachment" THEN total + o.size ELSE total

FetchFailures == {[kind |-> "error", size |-> -1], [kind |-> "not ok", size |-> -1]}
Body(n) == [kind |-> "body", size |-> n]
\* how the fetch of one file can settle
AllOutcomes ==
    FetchFailures \cup {Body(3 * MB), Body(5 * MB), Body(7 * MB), Body(7 * MB + 1),
                        Body(15 * MB)}
LongListOutcomes == {Body(7 * MB), Body(7 * MB + 1)}
OutcomesFor(n) == IF n <= MaxFiles THEN AllOutcomes ELSE LongListOutcomes

\* the descriptor at position i of payload.files
Descriptor(i) ==
    [url |-> <<"u", ToString(i)>>,
     filename |-> CASE i = 2 -> <<"<", "f", ">">> [] i = 3 -> <<>> [] OTHER -> <<"f", ToString(i)>>,
     type |-> IF i = 1 THEN "" ELSE "image/jpeg"]
FileList(n) == [i \in 1..n |-> Descriptor(i)]

\* lines 150-155: the call starts every fetch
StartFetches(fs) ==
    /\ fstate' = [i \in 1..Len(considered(fs)) |-> "pending"]
    /\ fsize' = [i \in 1..Len(considered(fs)) |-> -1]
    /\ results' = [i \in 1..Len(considered(fs)) |-> Null]
    /\ totalSize' = 0
    /\ rpc' = "fetching"

\* lines 155-187: the fetch of file i settles and its callback runs to its return; the
\* stretch between the two awaits touches only locals
FetchSettle(i) ==
    /\ rpc = "fetching"
    /\ i \in 1..Len(fstate)
    /\ fstate[i] = "pending"
    /\ \E o \in OutcomesFor(Len(files)) :
         LET r == settleResult(files[i], o, totalSize)
         IN /\ results' = [results EXCEPT ![i] = r]
            /\ fsize' = [fsize EXCEPT ![i] = o.size]
            /\ totalSize' = settleTotal(r, o, totalSize)
    /\ fstate' = [fstate EXCEPT ![i] = "settled"]
    /\ UNCHANGED <<rpc, rbody, data, files>>
    /\ UNCHANGED <<env, attachments, response, sends, hooks, mail, sendOk, hookOutcome>>
    /\ UNCHANGED ivars
    /\ UNCHANGED cvars

IsAttachment(r) == r.disposition = "attachment"

\* lines 190-191 and 63-72: Promise.all settles; a rejection is caught by the caller,
\* which keeps attachments = []
returnedAttachments(res) ==
    IF \E i \in 1..Len(res) : res[i] = Thrown THEN <<>>
    ELSE SelectSeq(res, IsAttachment)

ProcessAttachmentsReturn ==
    /\ rpc = "fetching"
    /\ \A i \in 1..Len(fstate) : fstate[i] = "settled"
    /\ attachments' = returnedAttachments(results)
    /\ rpc' = "returned"
    /\ UNCHANGED <<rbody, data, files, fstate, fsize, results, totalSize>>
    /\ UNCHANGED <<env, response, sends, hooks, mail, sendOk, hookOutcome>>
    /\ UNCHANGED ivars
    /\ UNCHANGED cvars

(***************************************************************************)
(* Submission Relay Handler: the handler                                   *)
(***************************************************************************)
RelayBodies == {"not json", "null", "absent", "no payload", "envelope"}

RelayDatas ==
    {NoFields,
     [NoFields EXCEPT !["name"] = Str(<<"a">>), !["make"] = Str(<<"<", "b", ">">>)],
     [NoFields EXCEPT !["<k>"] = Str(<<"a", "&">>), !["year"] = Num(<<"7">>)],
     [NoFields EXCEPT !["company"] = Str(<<"b">>), !["form-name"] = Str(<<"t">>),
                      !["vin"] = Str(<<" ">>), !["email"] = Str(<<"a">>)]}

RelayEnvs ==
    {Env(u, k, f, t) : u \in BOOLEAN, k \in BOOLEAN, f \in BOOLEAN,
                       t \in {<<>>, <<"a@x", ",", "b@x">>}}

IntakeIdle ==
    /\ event = Event("none", FALSE, FALSE, NoFields, <<>>, <<>>, <<>>)
    /\ ipc = "idle"
    /\ IntakeFresh

FetchFresh ==
    fstate = <<>> /\ fsize = <<>> /\ results = <<>> /\ totalSize = 0

InitRelay ==
    /\ env \in RelayEnvs
    /\ rbody \in RelayBodies
    /\ IF rbody = "envelope"
       THEN data \in RelayDatas /\ \E n \in 0..MaxFiles : files = FileList(n)
       ELSE data = NoFields /\ files = <<>>
    /\ rpc = "enter"
    /\ FetchFresh
    /\ IntakeIdle
    /\ ClientIdle

RelayRespond(r) == response' = r /\ rpc' = "done"

\* lines 78-87: the sg.send call
RelayCallSend(att) ==
    /\ mail' = relayMail(env, data, files, att)
    /\ sends' = sends + 1
    /\ rpc' = "sending"

\* lines 37-72 (and to line 87 when there are no files): configuration, envelope,
\* composition, start of the fetches
RelayEnter ==
    /\ rpc = "enter"
    /\ IF configMissing(env)
       THEN /\ RelayRespond(Resp(500, "Server configuration error"))
            /\ UNCHANGED <<mail, sends, fstate, fsize, results, totalSize>>
       ELSE IF payloadThrows(rbody)
       THEN /\ RelayRespond(Resp(400, "Invalid webhook payload"))
            /\ UNCHANGED <<mail, sends, fstate, fsize, results, totalSize>>
       ELSE IF Len(files) > 0
       THEN /\ StartFetches(files)
            /\ UNCHANGED <<mail, sends, response>>
       ELSE /\ RelayCallSend(<<>>)
            /\ UNCHANGED <<response, fstate, fsize, results, totalSize>>
    /\ UNCHANGED <<env, attachments, hooks, sendOk, hookOutcome, rbody, data, files>>
    /\ UNCHANGED ivars
    /\ UNCHANGED cvars

\* lines 66-87: processAttachments has returned; the email is composed and sent
RelayCompose ==
    /\ rpc = "returned"
    /\ RelayCallSend(attachments)
    /\ UNCHANGED <<env, attachments, response, hooks, sendOk, hookOutcome>>
    /\ UNCHANGED <<rbody, data, files, fstate, fsize, results, totalSize>>
    /\ UNCHANGED ivars
    /\ UNCHANGED cvars

\* lines 95 and 200: triggerBackupWebhook fetches when sg.send resolved and the URL is set
relayCallsHook(ok, e) == ok /\ e.SHEETS_WEBHOOK_URL

\* lines 80-97: sg.send settles
RelaySendSettles ==
    /\ rpc = "sending"
    /\ \E ok \in BOOLEAN :
         /\ sendOk' = ok
         /\ IF relayCallsHook(ok, env)
            THEN /\ hooks' = hooks + 1
                 /\ rpc' = "hook"
                 /\ UNCHANGED response
            ELSE /\ RelayRespond(IF ok THEN Resp(200, "ok")
                                 ELSE Resp(502, "Failed to send email via provider."))
                 /\ UNCHANGED hooks
    /\ UNCHANGED <<env, attachments, sends, mail, hookOutcome>>
    /\ UNCHANGED <<rbody, data, files, fstate, fsize, results, totalSize>>
    /\ UNCHANGED ivars
    /\ UNCHANGED cvars

\* lines 97 and 216-219: whatever the webhook did, the handler returns 200 "ok"
relayAfterHook(outcome) == Resp(200, "ok")

\* lines 211-219 and 97: the webhook fetch settles
RelayHookSettles ==
    /\ rpc = "hook"
    /\ \E o \in HookOutcomes :
         /\ hookOutcome' = o
         /\ RelayRespond(relayAfterHook(o))
    /\ UNCHANGED <<env, attachments, sends, hooks, mail, sendOk>>
    /\ UNCHANGED <<rbody, data, files, fstate, fsize, results, totalSize>>
    /\ UNCHANGED ivars
    /\ UNCHANGED cvars

FetchAny == \E i \in 1..Len(fstate) : FetchSettle(i)

NextRelay ==
    \/ RelayEnter
    \/ FetchAny
    \/ ProcessAttachmentsReturn
    \/ RelayCompose
    \/ RelaySendSettles
    \/ RelayHookSettles

SpecRelay == InitRelay /\ [][NextRelay]_vars

(***************************************************************************)
(* The relay when a file server may hold a connection open for good        *)
(***************************************************************************)
\* line 156: await fetch(file.url) is given no signal and no timer, so a server that
\* accepts the request and never finishes its answer leaves the promise pending
FetchStalls(i) ==
    /\ rpc = "fetching"
    /\ i \in 1..Len(fstate)
    /\ fstate[i] = "pending"
    /\ fstate' = [fstate EXCEPT ![i] = "stalled"]
    /\ UNCHANGED <<rpc, rbody, data, files, fsize, results, totalSize>>
    /\ UNCHANGED svars
    /\ UNCHANGED ivars
    /\ UNCHANGED cvars

FetchStallsAny == \E i \in 1..Len(fstate) : FetchStalls(i)

NextRelayStalls == NextRelay \/ FetchStallsAny

SpecRelayStalls == InitRelay /\ [][NextRelayStalls]_vars

(***************************************************************************)
(* processAttachments on its own: a call with a list of descriptors        *)
(***************************************************************************)
InitFetch ==
    /\ env = Env(FALSE, TRUE, TRUE, <<>>)
    /\ rbody = "envelope"
    /\ data = NoFields
    /\ \E n \in (0..MaxFiles) \cup {MaxList} : files = FileList(n)
    /\ fstate = [i \in 1..Len(considered(files)) |-> "pending"]
    /\ fsize = [i \in 1..Len(considered(files)) |-> -1]
    /\ results = [i \in 1..Len(considered(files)) |-> Null]
    /\ totalSize = 0
    /\ rpc = "fetching"
    /\ IntakeIdle
    /\ ClientIdle

NextFetch == FetchAny \/ ProcessAttachmentsReturn

SpecFetch == InitFetch /\ [][NextFetch]_vars

(***************************************************************************)
(* parseMultipart, event by event: busboy emits "field", "file", "data",   *)
(* "limit", "end" and "finish"; each registered callback is one action     *)
(***************************************************************************)
\* filename and declared type of a file part as busboy reports them
PartNames == {<<>>, <<" ">>, <<" ", "f", " ">>}
PartTypes == {"", "image/png"}

\* line 25-35: the parser and its empty closure, before busboy.end(body)
InitParse ==
    /\ env = Env(FALSE, TRUE, TRUE, <<>>)
    /\ IntakeIdle
    /\ RelayIdle
    /\ page = NoPage
    /\ busboy = [NoBusboy EXCEPT !.pc = "open", !.fields = [n \in {} |-> <<>>]]

ParseFrame == UNCHANGED svars /\ UNCHANGED ivars /\ UNCHANGED rvars /\ UNCHANGED page

\* line 35: busboy.on("field", (name, val) => { fields[name] = val; })
FieldEvent ==
    /\ busboy.pc = "open"
    /\ \E n \in {"name"}, v \in {<<"a">>} :
         busboy' = [busboy EXCEPT !.fields =
                       [k \in DOMAIN busboy.fields \cup {n} |->
                           IF k = n THEN v ELSE busboy.fields[k]]]
    /\ ParseFrame

\* lines 37-42: busboy.on("file", ...): a file part opens
FileEvent ==
    /\ busboy.pc = "open"
    /\ Len(busboy.parts) < MaxFileParts
    /\ \E fn \in PartNames, mt \in PartTypes :
         busboy' = [busboy EXCEPT !.pc = "file", !.name = "photos", !.filename = fn,
                                  !.mimeType = mt, !.size = 0, !.chunks = 0,
                                  !.truncated = FALSE]
    /\ ParseFrame

\* lines 44-47: file.on("data", ...): size += d.length; chunks.push(d)
DataEvent ==
    /\ busboy.pc = "file"
    /\ ~busboy.truncated
    /\ \E n \in 1..MaxPartBytes :
         /\ busboy.size + n <= MaxPartBytes
         /\ busboy' = [busboy EXCEPT !.size = @ + n, !.chunks = @ + n]
    /\ ParseFrame

\* line 50: file.on("limit", () => file.resume()): busboy has cut the stream of this
\* part and delivers no more of it; the callback changes nothing in the closure
LimitEvent ==
    /\ busboy.pc = "file"
    /\ ~busboy.truncated
    /\ busboy' = [busboy EXCEPT !.truncated = TRUE]
    /\ ParseFrame

\* line 39: const cleanName = (filename || "").trim()
cleanName(filename) == Trim(filename)

\* the "end" callback keeping every named part
keepPart_NamedOnly(cn, size) == cn # <<>>

\* line 54: if (cleanName && size > 0)
keepPart(cn, size) == cn # <<>> /\ size > 0

\* lines 52-64: file.on("end", ...): the part is pushed or skipped.  parts records
\* what busboy delivered for each part, src the part each kept file came from
EndEvent ==
    /\ busboy.pc = "file"
    /\ LET part == [field |-> busboy.name, filename |-> busboy.filename,
                    mimeType |-> busboy.mimeType, size |-> busboy.size,
                    truncated |-> busboy.truncated]
           kept == [field |-> busboy.name, filename |-> cleanName(busboy.filename),
                    mimetype |-> IF busboy.mimeType = "" THEN "application/octet-stream"
                                 ELSE busboy.mimeType,
                    buffer |-> busboy.chunks, size |-> busboy.size]
           keep == keepPart(cleanName(busboy.filename), busboy.size)
       IN busboy' = [busboy EXCEPT
                        !.pc = "open",
                        !.parts = Append(@, part),
                        !.files = IF keep THEN Append(@, kept) ELSE @,
                        !.src = IF keep THEN Append(@, Len(busboy.parts) + 1) ELSE @]
    /\ ParseFrame

\* line 68: busboy.on("finish", () => resolve({ fields, files }))
FinishEvent ==
    /\ busboy.pc = "open"
    /\ busboy' = [busboy EXCEPT !.pc = "resolved"]
    /\ ParseFrame

NextParse == FieldEvent \/ FileEvent \/ DataEvent \/ LimitEvent \/ EndEvent \/ FinishEvent

SpecParse == InitParse /\ [][NextParse]_vars

(***************************************************************************)
(* The page (assets/app.js): the VIN input, the decode button and doDecode *)
(***************************************************************************)
\* the characters of /^[A-HJ-NPR-Z0-9]{17}$/
VinChars ==
    {"A", "B", "C", "D", "E", "F", "G", "H", "J", "K", "L", "M", "N", "P", "R", "S",
     "T", "U", "V", "W", "X", "Y", "Z", "0", "1", "2", "3", "4", "5", "6", "7", "8", "9"}

\* lines 30-34
validVin(v) ==
    IF v = <<>> THEN FALSE
    ELSE LET t == toUpperCase(Trim(v))
         IN Len(t) = 17 /\ \A i \in 1..Len(t) : t[i] \in VinChars

\* String.prototype.replace(/\s+/g, "")
RemoveSpaces(v) == LET notSpace(c) == ~IsSpace(c) IN SelectSeq(v, notSpace)

\* what a visitor types into the VIN box
VinA == [i \in 1..17 |-> IF i = 17 THEN "A" ELSE "1"]
VinTyped ==
    {<<>>, VinA, [i \in 1..17 |-> IF i = 17 THEN "a" ELSE "1"] \o <<" ">>,
     [i \in 1..17 |-> "7"], [i \in 1..16 |-> "1"]}

\* the text of the decode button in the page markup
ButtonLabel == "Decode VIN"
\* line 179: the label while a decode runs (its ellipsis written as three dots)
Decoding == "Decoding..."

\* what decodeVin resolves with; "" is a missing detail
Details(y, mk, md, tr) == [year |-> y, make |-> mk, model |-> md, trim |-> tr]
DecodeResults ==
    {Details("", "", "", ""), Details("2020", "", "", ""),
     Details("2020", "VW", "Golf", ""), Details("2020", "VW", "Golf", "S")}

\* lines 148-160: DOMContentLoaded has run
PageLoaded == [NoPage EXCEPT !.loaded = TRUE, !.label = ButtonLabel]

InitDecode ==
    /\ env = Env(FALSE, TRUE, TRUE, <<>>)
    /\ IntakeIdle
    /\ RelayIdle
    /\ busboy = NoBusboy
    /\ page = PageLoaded

PageFrame == UNCHANGED svars /\ UNCHANGED ivars /\ UNCHANGED rvars /\ UNCHANGED busboy

\* lines 170-181: doDecode up to its first await, on page pg
doDecodeStart(pg) ==
    LET vin == toUpperCase(Trim(pg.vin))
    IN IF ~validVin(vin)
       THEN [pg EXCEPT !.toast = "Enter a valid 17-character VIN."]
       ELSE [pg EXCEPT !.disabled = TRUE, !.label = Decoding, !.toast = "",
                       !.runs = Append(@, [btnText |-> pg.label, at |-> "decodeVin",
                                           got |-> Details("", "", "", "")]),
                       !.started = @ + 1]

\* lines 14-17 and 210: an input event; the debounce wrapper (re)arms its timer
TypeVin ==
    /\ page.loaded
    /\ \E v \in VinTyped : page' = [page EXCEPT !.vin = v, !.timer = TRUE]
    /\ PageFrame

\* lines 211-217: the debounced callback runs
AutoDecode ==
    /\ page.loaded /\ page.timer
    /\ page.started < MaxDecodes
    /\ LET v == RemoveSpaces(toUpperCase(page.vin))
           pg == [page EXCEPT !.timer = FALSE]
       IN page' = IF v # page.lastVin
                  THEN IF validVin(v) THEN doDecodeStart([pg EXCEPT !.lastVin = v])
                       ELSE [pg EXCEPT !.lastVin = v]
                  ELSE pg
    /\ PageFrame

\* line 207: a click on the decode button; a disabled button dispatches no click
ClickDecode ==
    /\ page.loaded /\ ~page.disabled
    /\ page.started < MaxDecodes
    /\ page' = doDecodeStart(page)
    /\ PageFrame

Without(seq, i) == SubSeq(seq, 1, i - 1) \o SubSeq(seq, i + 1, Len(seq))

\* line 202: decodeBtn.textContent = btnText
finallyLabel(btnText) == btnText

\* lines 189-203: doDecode after loadModelsFor (or when it is skipped), its finally
\* block included; run i ends
doDecodeRest(pg, i, r) ==
    [pg EXCEPT !.model = IF r.model # "" THEN r.model ELSE @,
               !.trim = IF r.trim # "" THEN r.trim ELSE @,
               !.toast = IF r.year = "" /\ r.make = "" /\ r.model = "" /\ r.trim = ""
                         THEN "VIN decoded, but details are limited. Please fill fields manually."
                         ELSE "",
               !.disabled = FALSE,
               !.label = finallyLabel(pg.runs[i].btnText),
               !.runs = Without(@, i)]

\* lines 198-203: decodeVin rejected; catch and finally
doDecodeCatch(pg, i) ==
    [pg EXCEPT !.toast = "Could not decode VIN. Please fill fields manually.",
               !.disabled = FALSE,
               !.label = finallyLabel(pg.runs[i].btnText),
               !.runs = Without(@, i)]

\* lines 182-188 and 90-101: decodeVin has resolved with r; the selects are set and,
\* with a make and a year, loadModelsFor runs to its await
afterDecodeVin(pg, i, r) ==
    LET set == [pg EXCEPT !.year = IF r.year # "" THEN r.year ELSE @,
                          !.make = IF r.make # "" THEN r.make ELSE @]
    IN IF r.make # "" /\ r.year # ""
       THEN [set EXCEPT !.model = "", !.status = "Loading models...",
                        !.runs[i].at = "loadModelsFor", !.runs[i].got = r]
       ELSE doDecodeRest(set, i, r)

\* lines 182-203 and 58-88: the decodeVin call of run i settles
DecodeVinSettles ==
    /\ page.loaded
    /\ \E i \in 1..Len(page.runs) :
         /\ page.runs[i].at = "decodeVin"
         /\ \/ page' = doDecodeCatch(page, i)
            \/ \E r \in DecodeResults : page' = afterDecodeVin(page, i, r)
    /\ PageFrame

\* lines 102-116 and 189-203: the models fetch of run i settles; loadModelsFor never
\* rejects, and doDecode runs on to its end
LoadModelsSettles ==
    /\ page.loaded
    /\ \E i \in 1..Len(page.runs) :
         /\ page.runs[i].at = "loadModelsFor"
         /\ \E st \in {"", "No models found for that Make/Year.", "Could not load models."} :
              page' = doDecodeRest([page EXCEPT !.status = st], i, page.runs[i].got)
    /\ PageFrame

NextDecode == TypeVin \/ AutoDecode \/ ClickDecode \/ DecodeVinSettles \/ LoadModelsSettles

SpecDecode == InitDecode /\ [][NextDecode]_vars

(***************************************************************************)
(* A request to either handler                                             *)
(***************************************************************************)
Init == InitIntake \/ InitRelay

Next == NextIntake \/ NextRelay

Spec == Init /\ [][Next]_vars

(***************************************************************************)
(* Properties                                                              *)
(***************************************************************************)
RequiredKeys == {"name", "email", "phone", "vin"}

\* the intake handler has parsed a POST body and has acted on the parsed fields
IntakeActed ==
    event.httpMethod = "POST" /\ event.bodyOk /\ ipc \in {"sending", "hook", "done"}

\* C1: a parsed POST with a blank honeypot whose name, email, phone or VIN is blank
\* after normalization is answered 400, and neither an email send nor a webhook call
\* is made for it.
C1_MissingRequiredIs400 ==
    (/\ IntakeActed
     /\ Trim(safe(rawData["company"])) = <<>>
     /\ ~normalizeLeadThrows(rawData)
     /\ \E k \in RequiredKeys : normalizeLead(rawData)[k] = <<>>)
    => /\ ipc = "done"
       /\ response.status = 400
       /\ sends = 0
       /\ hooks = 0

C1_Witness ==
    /\ ipc = "done" /\ IntakeActed
    /\ response = Resp(400, "Missing required fields")
    /\ rawData["name"] = Str(<<" ">>)
    /\ lead["email"] # <<>> /\ lead["phone"] # <<>> /\ lead["vin"] # <<>>
    /\ sends = 0

\* the honeypot field holds a string that is not blank
HoneypotFilled(raw) == raw["company"].t = "str" /\ Trim(raw["company"].s) # <<>>

Done == ipc = "done" \/ rpc = "done"

\* C3: in both handlers the webhook is called only after the send of the request has
\* succeeded; a failed send is answered 502, is not retried and is followed by no
\* webhook call.
C3_HookOnlyAfterSend ==
    /\ sends <= 1
    /\ hooks <= sends
    /\ hooks > 0 => sendOk
    /\ (Done /\ sends = 1 /\ ~sendOk) => (response.status = 502 /\ hooks = 0)

C3_Witness ==
    /\ Done /\ sends = 1 /\ ~sendOk
    /\ env.SHEETS_WEBHOOK_URL
    /\ response.status = 502 /\ hooks = 0

\* the request accepts application/json or carries the AJAX marker header
AsksForJson ==
    \/ \E i \in 1..Len(event.accept) : event.accept[i] = "application/json"
    \/ event.xrw \in {XHR, toLowerCase(XHR)}

\* the response a request gets once its email is sent, from the request alone
ExpectedSuccess ==
    IF rpc = "done" THEN Resp(200, "ok")
    ELSE IF AsksForJson
    THEN [status |-> 200, body |-> "{ok:true,files}", files |-> Len(mail.attachments),
          location |-> ""]
    ELSE [status |-> 303, body |-> "", files |-> -1, location |-> "/success/index.html"]

\* C4: in both handlers, once the send has succeeded the response is the same whether
\* the webhook is not configured, succeeds, fails on the network or answers non-2xx.
C4_HookNeverChangesResponse ==
    (Done /\ sendOk) => response = ExpectedSuccess

C4_Witness ==
    /\ ipc = "done" /\ sendOk
    /\ hookOutcome = "network error"
    /\ response.status = 303

\* C9: after a successful send the intake handler answers 200 {ok:true, files:N} to a
\* request that accepts application/json or carries the AJAX marker header, and 303
\* with the success page as Location otherwise; N is the number of attachments handed
\* to the provider.
C9_SuccessNegotiation ==
    (ipc = "done" /\ sendOk)
    => IF AsksForJson
       THEN /\ response.status = 200
            /\ response.body = "{ok:true,files}"
            /\ response.files = Len(mail.attachments)
       ELSE /\ response.status = 303
            /\ response.location = "/success/index.html"

C9_Witness ==
    /\ ipc = "done" /\ sendOk
    /\ event.accept = <<>> /\ event.xrw = XHR
    /\ Len(uploads) = 9
    /\ response.status = 200 /\ response.files = 8

RawMarkup(text) == \E i \in 1..Len(text) : text[i] \in {"<", ">"}

\* C10: every submitter-supplied key and value rendered into the HTML body of the
\* email, by either handler, has &, < and > escaped: no piece of the body taken from
\* the submission holds a raw < or >.
C10_HtmlEscaped ==
    sends > 0 => \A i \in 1..Len(mail.html) : mail.html[i].tpl \/ ~RawMarkup(mail.html[i].text)

\* the positions a first-fit walk in input order admits: sizes are the bytes fetched
\* per considered descriptor (-1 for a failed fetch), from position i with total t
RECURSIVE InputOrderAdmitted(_, _, _)
InputOrderAdmitted(sizes, i, t) ==
    IF i > Len(sizes) THEN {}
    ELSE IF sizes[i] >= 0 /\ sizes[i] <= MAX_EACH_MB * MB /\ t + sizes[i] <= MAX_TOTAL_MB * MB
    THEN {i} \cup InputOrderAdmitted(sizes, i + 1, t + sizes[i])
    ELSE InputOrderAdmitted(sizes, i + 1, t)

\* C5: the MAX_TOTAL budget is applied in input order, not in completion order: the
\* admitted set is the one a first-fit walk over the considered descriptors in input
\* order admits.
C5_BudgetInInputOrder ==
    rpc = "returned"
    => {i \in 1..Len(results) : IsAttachment(results[i])} = InputOrderAdmitted(fsize, 1, 0)

\* a is a subsequence of b
RECURSIVE IsSubseq(_, _)
IsSubseq(a, b) ==
    IF a = <<>> THEN TRUE
    ELSE IF b = <<>> THEN FALSE
    ELSE IF Head(a) = Head(b) THEN IsSubseq(Tail(a), Tail(b))
    ELSE IsSubseq(a, Tail(b))

\* the attachment a descriptor yields when it is admitted with size bytes
AttachmentOf(f, size) ==
    [content |-> size, filename |-> f.filename,
     type |-> IF f.type = "" THEN "application/octet-stream" ELSE f.type,
     disposition |-> "attachment"]

\* what each of the first MAX_ATTACH descriptors would yield with the bytes fetched
FirstTenAsFetched ==
    [i \in 1..Min(Len(files), MAX_ATTACH) |->
        AttachmentOf(files[i], IF i <= Len(fsize) THEN fsize[i] ELSE -1)]

\* C6: for every list and completion order the returned list is a subsequence, in
\* input order, of the first MAX_ATTACH descriptors and holds no file above
\* MAX_EACH bytes; sizes [5MB, 3MB, 15MB] return [file1, file2].
C6_SubsequenceWithinCaps ==
    /\ Len(fstate) <= MAX_ATTACH
    /\ rpc = "returned"
       => /\ IsSubseq(attachments, FirstTenAsFetched)
          /\ \A j \in 1..Len(attachments) : attachments[j].content <= MAX_EACH_MB * MB
          /\ fsize = <<5 * MB, 3 * MB, 15 * MB>>
             => attachments = <<AttachmentOf(files[1], 5 * MB), AttachmentOf(files[2], 3 * MB)>>

C6_Witness ==
    /\ rpc = "returned"
    /\ Len(files) = MaxList
    /\ Len(results) = MAX_ATTACH
    /\ fsize[1] = 7 * MB + 1 /\ fsize[2] = 7 * MB /\ fsize[10] = 7 * MB
    /\ Len(attachments) = 2
    /\ attachments[1].filename = files[2].filename

\* bytes fetched from the descriptors that answered and are within MAX_EACH
RECURSIVE CompliantBytes(_, _)
CompliantBytes(sizes, i) ==
    IF i > Len(sizes) THEN 0
    ELSE (IF sizes[i] >= 0 /\ sizes[i] <= MAX_EACH_MB * MB THEN sizes[i] ELSE 0)
         + CompliantBytes(sizes, i + 1)

\* C7: in the relay a failing fetch of one URL never fails the request and never keeps
\* the others out: every descriptor that fetched and is size-compliant is in the email
\* that is sent, and the handler answers 200 "ok" when the send succeeds.
C7_FailedFetchLeavesOthers ==
    /\ (sends = 1 /\ Len(fsize) > 0 /\ CompliantBytes(fsize, 1) <= MAX_TOTAL_MB * MB)
       => \A i \in 1..Len(fsize) :
             (fsize[i] >= 0 /\ fsize[i] <= MAX_EACH_MB * MB)
             => \E j \in 1..Len(mail.attachments) :
                   mail.attachments[j] = AttachmentOf(files[i], fsize[i])
    /\ (rpc = "done" /\ sendOk) => response = Resp(200, "ok")
    /\ rpc = "sending" => (sends = 1 /\ response = NoResponse)

C7_Witness ==
    /\ rpc = "done" /\ sendOk /\ response = Resp(200, "ok")
    /\ Len(fsize) = 3
    /\ fsize[1] = 3 * MB /\ fsize[2] = -1 /\ fsize[3] = 5 * MB
    /\ Len(mail.attachments) = 2

KeyAndSender == env.SENDGRID_API_KEY /\ env.FROM_EMAIL

\* C8 as stated: a missing or invalid envelope is answered 400 with no email, and
\* missing provider configuration (API key, sender, recipients) is answered 500 with
\* no email.
C8_AsStated ==
    rpc = "done"
    => /\ rbody # "envelope" => (response.status = 400 /\ sends = 0)
       /\ (~KeyAndSender \/ env.TO_EMAIL = <<>>) => (response.status = 500 /\ sends = 0)

\* C8, amended: without the API key or the sender the event is answered 500 and no email
\* is sent; with both, a body that is not JSON, or is JSON null, is answered 400 and no
\* email is sent, a body that parses without a payload object is processed as an empty
\* submission, and missing recipients are replaced by the default list.
C8_EnvelopeAndConfig ==
    /\ rpc = "done"
       => /\ ~KeyAndSender => (response.status = 500 /\ sends = 0)
          /\ (KeyAndSender /\ rbody \in {"not json", "null"})
             => (response.status = 400 /\ sends = 0)
          /\ (KeyAndSender /\ rbody \in {"absent", "no payload"})
             => (sends = 1 /\ response.status \in {200, 502} /\ mail.text = <<>>)
    /\ (sends = 1 /\ rpc # "idle" /\ env.TO_EMAIL = <<>>)
       => mail.to = <<<<"steve@quirkcars.com">>, <<"gmcintosh@quirkcars.com">>,
                      <<"lmendez@quirkcars.com">>>>

C8_Witness ==
    /\ rpc = "done" /\ rbody = "no payload" /\ env.TO_EMAIL = <<>>
    /\ sends = 1 /\ response = Resp(200, "ok")

\* the keys of the rows of an email, in the order emitted
RowKeys(rows) == [i \in 1..Len(rows) |-> rows[i].k]

IsPreferred(k) == \E i \in 1..Len(preferred) : preferred[i] = k
PreferredIndex(k) == CHOOSE i \in 1..Len(preferred) : preferred[i] = k

\* key a comes before key b: preferred keys in preferred order, then the others sorted
PreferredThenLex(a, b) ==
    IF IsPreferred(a) /\ IsPreferred(b) THEN PreferredIndex(a) < PreferredIndex(b)
    ELSE IF IsPreferred(a) THEN TRUE
    ELSE IF IsPreferred(b) THEN FALSE
    ELSE LexLess(KeyChars(a), KeyChars(b))

\* form metadata and the honeypot field
ControlFields == {"form-name", "company"}

\* the field map the compositor of the running handler was given
ComposedFrom == IF rpc = "idle" THEN Merged(lead, rawData) ELSE data

\* C11 as stated: each compositor emits the non-blank preferred keys in preferred
\* order, then the other non-blank keys in lexicographic order, each key at most
\* once, and no row for a control field.
C11_AsStated ==
    sends > 0
    => LET ks == RowKeys(mail.text)
       IN /\ \A i, j \in 1..Len(ks) : i < j => PreferredThenLex(ks[i], ks[j])
          /\ {ks[i] : i \in 1..Len(ks)}
               = {k \in FieldKeys \ ControlFields : hasVal(ComposedFrom[k])}

\* C11, amended: the intake compositor emits the non-blank preferred keys in preferred
\* order and then every other non-blank key, control fields included, in
\* lexicographic order; the relay compositor emits the non-blank keys in
\* lexicographic order alone and leaves out form-name, company, bot-field and
\* honeypot; both emit each key at most once.
C11_Compositors ==
    sends > 0
    => LET ks == RowKeys(mail.text)
       IN IF rpc = "idle"
          THEN /\ \A i, j \in 1..Len(ks) : i < j => PreferredThenLex(ks[i], ks[j])
               /\ {ks[i] : i \in 1..Len(ks)} = {k \in FieldKeys : hasVal(ComposedFrom[k])}
          ELSE /\ \A i, j \in 1..Len(ks) :
                     i < j => LexLess(KeyChars(ks[i]), KeyChars(ks[j]))
               /\ {ks[i] : i \in 1..Len(ks)}
                    = {k \in FieldKeys \ {"form-name", "company", "bot-field", "honeypot"} :
                          hasVal(ComposedFrom[k])}

C11_Witness ==
    /\ ipc = "done" /\ sends = 1
    /\ RowKeys(mail.text) = <<"name", "email", "phone", "vin", "make", "submittedAt",
                               "<k>", "company", "form-name">>

\* the file parts busboy has delivered in full, as parseMultipartFiles takes them
DeliveredParts ==
    [i \in 1..Len(busboy.parts) |->
        [field |-> busboy.parts[i].field, filename |-> busboy.parts[i].filename,
         mimeType |-> busboy.parts[i].mimeType, size |-> busboy.parts[i].size]]

WithoutBuffer(f) ==
    [field |-> f.field, filename |-> f.filename, mimetype |-> f.mimetype, size |-> f.size]

\* C12: whatever file parts busboy delivers, a part is in the parsed files list only
\* if its trimmed filename is non-empty and it carried at least one byte; unnamed and
\* zero-byte parts are never in the list, whatever their declared type, and the list
\* is exactly the named, non-empty parts in order.
C12_OnlyNamedNonEmpty ==
    /\ \A i \in 1..Len(busboy.files) :
         LET p == busboy.parts[busboy.src[i]]
         IN /\ Trim(p.filename) # <<>> /\ p.size > 0
            /\ busboy.files[i].filename = Trim(p.filename)
            /\ busboy.files[i].size = p.size /\ busboy.files[i].buffer = p.size
    /\ \A j \in 1..Len(busboy.parts) :
         (Trim(busboy.parts[j].filename) = <<>> \/ busboy.parts[j].size = 0)
         => \A i \in 1..Len(busboy.src) : busboy.src[i] # j
    /\ [i \in 1..Len(busboy.files) |-> WithoutBuffer(busboy.files[i])]
         = parseMultipartFiles(DeliveredParts)

C12_Witness ==
    /\ busboy.pc = "resolved"
    /\ Len(busboy.parts) = 2 /\ Len(busboy.files) = 1
    /\ busboy.parts[1].size = 0 /\ busboy.parts[1].filename = <<" ", "f", " ">>
    /\ busboy.parts[1].mimeType = "image/png"
    /\ busboy.src = <<2>>

C13_FetchNeverBlocks == rpc = "fetching" => ENABLED NextRelayStalls

\* C15: for every raw fields map in which a Lead field is a non-string value,
\* normalization completes without error and the Lead field holds the trimmed string
\* form of that value.
C15_NonStringsCoerced ==
    (IntakeActed /\ ~honeypot(rawData))
    => /\ response # Unhandled
       /\ \A k \in LeadKeys \ {"submittedAt"} :
            rawData[k].t = "num" => lead[k] = Trim(rawData[k].s)

\* total bytes of the attachments among a list of callback results
RECURSIVE SumContent(_)
SumContent(res) ==
    IF res = <<>> THEN 0
    ELSE (IF IsAttachment(Head(res)) THEN Head(res).content ELSE 0) + SumContent(Tail(res))

\* C16: under every interleaving of the fetch completions the bytes of the returned
\* attachments sum to at most MAX_TOTAL_MB megabytes: the running total is always the
\* sum of what has been admitted and never passes the cap, because each callback
\* checks and updates it in one step.
C16_TotalWithinCap ==
    /\ totalSize = SumContent(results)
    /\ totalSize <= MAX_TOTAL_MB * MB
    /\ rpc = "returned" => SumContent(attachments) <= MAX_TOTAL_MB * MB

C16_Witness ==
    /\ rpc = "returned"
    /\ fsize = <<7 * MB, 7 * MB, 7 * MB>>
    /\ results[2] = Null
    /\ SumContent(attachments) = 14 * MB

\* C17: whenever no decode is in flight the decode button is enabled and shows its
\* original label, also after two decodes that overlapped and finished in any order,
\* each with success or failure.
C17_ButtonRestored ==
    (page.loaded /\ page.runs = <<>>)
    => (~page.disabled /\ page.label = ButtonLabel)

====
